---- MODULE Spec2Model ----
(***************************************************************************)
(* Model of rust_synth_gui: the ADSR envelope (src/src/envelope.rs), the   *)
(* sound generator and the threads around them.                            *)
(*                                                                         *)
(* Numbers.  The source computes in f32.  Times are modelled as whole      *)
(* ticks and levels as integers in units of 1/One.  Stage durations are    *)
(* taken from Durations (powers of two) and sustain levels from            *)
(* SustainLevels (multiples of One/2), so that every quotient              *)
(* phase_time/duration is a multiple of 1/4, every value of the quintic    *)
(* ease curve is a multiple of 1/CurveDen, and every product the source    *)
(* forms is a multiple of 1/One: on this grid the integer arithmetic below *)
(* is exact, and so is the f32 arithmetic of the source (no result needs   *)
(* more than 24 significant bits).  Only a release that starts from a      *)
(* level retained across a retrigger leaves the grid; there ScaleMul       *)
(* rounds down by less than 1/One.                                         *)
(*                                                                         *)
(* State.  The envelope record has the fields of struct Envelope, except   *)
(* sample_rate, time and release_start_time: sample_rate is only set,      *)
(* release_start_time is only assigned, and time is read only to assign    *)
(* release_start_time, so none of them can reach a value, a state or a     *)
(* flag.  phase_time is advanced by the same statements as time.           *)
(*                                                                         *)
(* Specifications.  Spec and SpecParams drive one Envelope through its     *)
(* public methods; SpecManager drives an EnvelopeManager; SpecSetters      *)
(* calls the setters with any arguments; SpecAudio runs the audio callback *)
(* beside the GUI frame, and SpecMidi / SpecMidiFair the MIDI callback     *)
(* beside its watchdog, each thread one lock operation at a time, and      *)
(* SpecThreads the four threads together.  The thread specifications cover *)
(* the time between Connect and Disconnect.  SpecDurations drives an       *)
(* Envelope built with stage durations of zero or less; SpecSound calls    *)
(* generate_waveform (oscillator.rs) and generate_unison (unison.rs).      *)
(***************************************************************************)
EXTENDS Integers, Sequences, FiniteSets, TLC

\* 1.0 in level units (2^21)
One == 2097152

\* denominator of the ease curve's values (4^5, the largest duration to the fifth)
CurveDen == 1024

\* largest note identity used by start()
MaxNote == 1

\* cap on Envelope.phase_time in Sustain (the source lets it grow without bound there)
MaxSustain == 3

\* cap on the number of Attacks begun since the envelope was last Idle
MaxStarts == 2

Notes == 0..MaxNote

\* stage durations (ticks) and update steps (ticks) the model draws from
Durations == {2, 4}

DeltaTimes == {1, 2, 3}

SustainLevels == {0, One \div 2, One}

EnvelopeParams ==
  [attack : Durations, decay : Durations, sustain : SustainLevels, release : Durations]

VARIABLES
  env,      \* the Envelope
  lastOp,   \* the call that produced this state: [op, note, dt]
  pre,      \* what the claims read of the Envelope as it was before that call
  mid,      \* inside start(): the fields after the implicit end(), before the new Attack
  hist,     \* history of the calls since the last start()/end()
  mgr,      \* the EnvelopeManager
  rt,       \* the threads around the shared state: audio callback, GUI, MIDI, watchdog
  snd       \* a call of the sound generator: its arguments and its result

vars == <<env, lastOp, pre, mid, hist, mgr, rt, snd>>

----------------------------------------------------------------------------
(* Arithmetic of the ease curve *)

\* floor(x * c / CurveDen), computed without leaving 32 bits
ScaleMul(x, c) ==
  (x \div CurveDen) * c + ((x % CurveDen) * c) \div CurveDen

\* t*t*t*(t*(t*6 - 15) + 10) at t = p/d, in units of 1/CurveDen:
\* floor(p^3 * (6p^2 - 15pd + 10d^2) * CurveDen / d^5), the factor CurveDen = 32 * 32
\* applied in two halves so that no intermediate product leaves 32 bits
Smootherstep(p, d) ==
  LET x == p * p * p * (6 * p * p - 15 * p * d + 10 * d * d)
      d5 == d * d * d * d * d
      y == x * 32
  IN  (y \div d5) * 32 + ((y % d5) * 32) \div d5

\* level of the Attack curve at phase p of an attack of d ticks
AttackCurve(p, d) == Smootherstep(p, d) * (One \div CurveDen)

\* faulty variant of DecayCurve: the eased part added to 1 instead of taken from it
DecayCurveUp(p, d, sv) == One + ScaleMul(One - sv, Smootherstep(p, d))

\* level of the Decay curve: 1 - (1 - sustain_value) * decay_curve
DecayCurve(p, d, sv) == One - ScaleMul(One - sv, Smootherstep(p, d))

\* faulty variant of ReleaseCurve: release_curve used where 1 - release_curve is meant
ReleaseCurveRising(p, d, rsv) == ScaleMul(rsv, Smootherstep(p, d))

\* level of the Release curve: release_start_value * (1 - release_curve)
ReleaseCurve(p, d, rsv) == ScaleMul(rsv, CurveDen - Smootherstep(p, d))

----------------------------------------------------------------------------
(* The Envelope's operations, as functions of the envelope record *)

New(params) ==
  [ params |-> params,
    state |-> "Idle",
    value |-> 0,
    last_value |-> 0,
    is_active |-> FALSE,
    sustain_value |-> 0,
    is_released |-> FALSE,
    is_triggered |-> FALSE,
    is_sustaining |-> FALSE,
    is_processing |-> FALSE,
    attack_start_time |-> 0,
    note_id |-> 0,
    release_start_value |-> 0,
    phase_time |-> 0,
    release_phase_time |-> 0 ]

\* faulty variant of End: the test of is_released left out
EndUnguarded(e) ==
  IF e.is_triggered /\ e.is_processing
    THEN [e EXCEPT !.state = "Release",
                   !.release_phase_time = 0,
                   !.last_value = e.value,
                   !.release_start_value = e.value,
                   !.is_released = TRUE,
                   !.is_sustaining = FALSE]
    ELSE e

End(e) ==
  IF e.is_triggered /\ ~e.is_released /\ e.is_processing
    THEN [e EXCEPT !.state = "Release",
                   !.release_phase_time = 0,
                   !.last_value = e.value,
                   !.release_start_value = e.value,
                   !.is_released = TRUE,
                   !.is_sustaining = FALSE]
    ELSE e

\* faulty variant of StartIgnored: a note that is being released is started again
StartIgnoredUnlessReleased(e, note_id) ==
  e.note_id = note_id /\ e.is_processing /\ ~e.is_released

\* start(): the same note while processing is ignored
StartIgnored(e, note_id) == e.note_id = note_id /\ e.is_processing

\* faulty variant of StartRelease: the call of end() left out
StartReleaseSkipped(e, note_id) == e

\* start(): a different note while processing is ended first
StartRelease(e, note_id) ==
  IF e.is_processing /\ e.note_id # note_id THEN End(e) ELSE e

\* faulty variant of StartAttack: phase_time not reset
StartAttackKeepPhase(e, note_id) ==
  [e EXCEPT !.state = "Attack",
            !.attack_start_time = 0,
            !.last_value = e.value,
            !.is_active = TRUE,
            !.is_released = FALSE,
            !.is_triggered = TRUE,
            !.is_sustaining = FALSE,
            !.is_processing = TRUE,
            !.sustain_value = e.params.sustain,
            !.note_id = note_id,
            !.release_start_value = 0,
            !.release_phase_time = 0]

\* start(): the assignments that begin the Attack
StartAttack(e, note_id) ==
  [e EXCEPT !.state = "Attack",
            !.phase_time = 0,
            !.attack_start_time = 0,
            !.last_value = e.value,
            !.is_active = TRUE,
            !.is_released = FALSE,
            !.is_triggered = TRUE,
            !.is_sustaining = FALSE,
            !.is_processing = TRUE,
            !.sustain_value = e.params.sustain,
            !.note_id = note_id,
            !.release_start_value = 0,
            !.release_phase_time = 0]

Start(e, note_id) ==
  IF StartIgnored(e, note_id)
    THEN e
    ELSE StartAttack(StartRelease(e, note_id), note_id)

\* update(): the early return of an envelope that is not triggered or not processing
UpdateInactive(e) ==
  [e EXCEPT !.value = 0,
            !.is_released = FALSE,
            !.is_sustaining = FALSE,
            !.is_processing = FALSE]

\* update(): the phase time advances (with time, which the model leaves out)
UpdateAdvance(e, delta_time) ==
  [e EXCEPT !.phase_time = e.phase_time + delta_time]

UpdateIdle(e) ==
  [e EXCEPT !.value = 0,
            !.is_released = FALSE,
            !.is_sustaining = FALSE,
            !.is_processing = FALSE]

\* faulty variant of UpdateAttack: > where >= is meant
UpdateAttackLate(e) ==
  IF e.phase_time > e.params.attack
    THEN [e EXCEPT !.state = "Decay",
                   !.phase_time = 0,
                   !.last_value = e.value]
    ELSE [e EXCEPT !.value = AttackCurve(e.phase_time, e.params.attack)]

UpdateAttack(e) ==
  IF e.phase_time >= e.params.attack
    THEN [e EXCEPT !.state = "Decay",
                   !.phase_time = 0,
                   !.last_value = e.value]
    ELSE [e EXCEPT !.value = AttackCurve(e.phase_time, e.params.attack)]

\* faulty variant of UpdateDecay: Sustain entered with is_sustaining left false
UpdateDecayUnflagged(e) ==
  IF e.phase_time >= e.params.decay
    THEN [e EXCEPT !.state = "Sustain",
                   !.phase_time = 0,
                   !.last_value = e.value,
                   !.value = e.sustain_value]
    ELSE [e EXCEPT !.value = DecayCurve(e.phase_time, e.params.decay, e.sustain_value)]

UpdateDecay(e) ==
  IF e.phase_time >= e.params.decay
    THEN [e EXCEPT !.state = "Sustain",
                   !.phase_time = 0,
                   !.last_value = e.value,
                   !.value = e.sustain_value,
                   !.is_sustaining = TRUE]
    ELSE [e EXCEPT !.value = DecayCurve(e.phase_time, e.params.decay, e.sustain_value)]

UpdateSustain(e) ==
  IF e.is_sustaining THEN [e EXCEPT !.value = e.sustain_value] ELSE e

\* faulty variant of UpdateRelease: > where >= is meant
UpdateReleaseLate(e, delta_time) ==
  LET rpt == e.release_phase_time + delta_time IN
  IF rpt > e.params.release
    THEN [e EXCEPT !.state = "Idle",
                   !.phase_time = 0,
                   !.release_phase_time = 0,
                   !.last_value = e.value,
                   !.value = 0,
                   !.is_active = FALSE,
                   !.is_released = FALSE,
                   !.is_triggered = FALSE,
                   !.is_sustaining = FALSE,
                   !.is_processing = FALSE,
                   !.note_id = 0,
                   !.release_start_value = 0]
    ELSE [e EXCEPT !.release_phase_time = rpt,
                   !.value = ReleaseCurve(rpt, e.params.release, e.release_start_value)]

UpdateRelease(e, delta_time) ==
  LET rpt == e.release_phase_time + delta_time IN
  IF rpt >= e.params.release
    THEN [e EXCEPT !.state = "Idle",
                   !.phase_time = 0,
                   !.release_phase_time = 0,
                   !.last_value = e.value,
                   !.value = 0,
                   !.is_active = FALSE,
                   !.is_released = FALSE,
                   !.is_triggered = FALSE,
                   !.is_sustaining = FALSE,
                   !.is_processing = FALSE,
                   !.note_id = 0,
                   !.release_start_value = 0]
    ELSE [e EXCEPT !.release_phase_time = rpt,
                   !.value = ReleaseCurve(rpt, e.params.release, e.release_start_value)]

\* faulty variant of Update: the early return left out
UpdateNoEarlyReturn(e, delta_time) ==
  LET a == UpdateAdvance(e, delta_time) IN
  CASE a.state = "Idle"    -> UpdateIdle(a)
    [] a.state = "Attack"  -> UpdateAttack(a)
    [] a.state = "Decay"   -> UpdateDecay(a)
    [] a.state = "Sustain" -> UpdateSustain(a)
    [] a.state = "Release" -> UpdateRelease(a, delta_time)

Update(e, delta_time) ==
  IF ~e.is_triggered \/ ~e.is_processing
    THEN UpdateInactive(e)
    ELSE LET a == UpdateAdvance(e, delta_time) IN
         CASE a.state = "Idle"    -> UpdateIdle(a)
           [] a.state = "Attack"  -> UpdateAttack(a)
           [] a.state = "Decay"   -> UpdateDecay(a)
           [] a.state = "Sustain" -> UpdateSustain(a)
           [] a.state = "Release" -> UpdateRelease(a, delta_time)

SetParams(e, params) ==
  IF e.is_sustaining
    THEN [e EXCEPT !.params = params,
                   !.sustain_value = params.sustain,
                   !.value = params.sustain]
    ELSE [e EXCEPT !.params = params]

GetValue(e) == e.value

----------------------------------------------------------------------------
(* History *)

\* what the claims read of an envelope as it was before a call
Before(e, h) ==
  [ state |-> e.state, value |-> e.value, note_id |-> e.note_id,
    is_triggered |-> e.is_triggered, is_processing |-> e.is_processing,
    release_start_value |-> e.release_start_value, relUsed |-> h.relUsed ]

NoOp == [op |-> "new", note |-> 0, dt |-> 0]

NoMid == [state |-> "none", release_start_value |-> 0, is_released |-> FALSE]

Sounding == {"Attack", "Decay", "Sustain"}

\* held:     a start() on an idle envelope has been followed by update() calls only
\* heldDt:   the step of those updates (0: none yet, -1: steps of different sizes)
\* elapsed:  the sum of the steps of those updates
\* ended:    an end() of a sounding envelope has been followed by update() calls only
\* sinceEnd: the sum of the steps of those updates
\* retrig:   a start() of another note on a sounding envelope, then update() calls only
\* relUsed:  the release duration in force at the last end() or update() of the note
\* starts:   the number of Attacks begun since the envelope was last Idle
NoHist ==
  [held |-> FALSE, heldDt |-> 0, elapsed |-> 0, ended |-> FALSE, sinceEnd |-> 0,
   retrig |-> FALSE, relUsed |-> 0, starts |-> 0]

\* the value of a variable whose object a specification does not construct
NotBuilt == "not built"

----------------------------------------------------------------------------
(* The state machine: one action per public method *)

Init ==
  /\ \E params \in EnvelopeParams : env = New(params)
  /\ lastOp = NoOp
  /\ hist = NoHist
  /\ pre = Before(env, hist)
  /\ mid = NoMid
  /\ mgr = NotBuilt
  /\ rt = NotBuilt
  /\ snd = NotBuilt

StartCall(note_id) ==
    /\ env' = Start(env, note_id)
    /\ lastOp' = [op |-> "start", note |-> note_id, dt |-> 0]
    /\ pre' = Before(env, hist)
    /\ mid' = IF StartIgnored(env, note_id)
                THEN NoMid
                ELSE LET m == StartRelease(env, note_id) IN
                     [state |-> m.state, release_start_value |-> m.release_start_value,
                      is_released |-> m.is_released]
    /\ hist' = IF StartIgnored(env, note_id)
                 THEN hist
                 ELSE [hist EXCEPT !.held = (env.state = "Idle"),
                                   !.heldDt = 0,
                                   !.elapsed = 0,
                                   !.ended = FALSE,
                                   !.sinceEnd = 0,
                                   !.retrig = (env.state \in Sounding),
                                   !.relUsed = 0,
                                   !.starts = hist.starts + 1]
    /\ UNCHANGED <<mgr, rt, snd>>

EndOp ==
  /\ env' = End(env)
  /\ lastOp' = [op |-> "end", note |-> 0, dt |-> 0]
  /\ pre' = Before(env, hist)
  /\ mid' = NoMid
  /\ hist' = IF env.state \in Sounding
               THEN [hist EXCEPT !.held = FALSE, !.heldDt = 0, !.elapsed = 0, !.ended = TRUE,
                                 !.sinceEnd = 0, !.retrig = FALSE,
                                 !.relUsed = env.params.release]
               ELSE [hist EXCEPT !.held = FALSE, !.heldDt = 0, !.elapsed = 0, !.retrig = FALSE]
  /\ UNCHANGED <<mgr, rt, snd>>

UpdateOp ==
  \E delta_time \in DeltaTimes :
    /\ env.state = "Sustain" => env.phase_time + delta_time <= MaxSustain
    /\ env' = Update(env, delta_time)
    /\ lastOp' = [op |-> "update", note |-> 0, dt |-> delta_time]
    /\ pre' = Before(env, hist)
    /\ mid' = NoMid
    /\ hist' = [hist EXCEPT
                  !.heldDt = IF ~hist.held THEN 0
                             ELSE IF hist.heldDt \in {0, delta_time} THEN delta_time
                             ELSE -1,
                  !.elapsed = IF hist.held THEN hist.elapsed + delta_time ELSE 0,
                  !.sinceEnd = IF hist.ended /\ env.state = "Release"
                                 THEN hist.sinceEnd + delta_time
                                 ELSE hist.sinceEnd,
                  !.relUsed = env.params.release,
                  !.starts = IF Update(env, delta_time).state = "Idle" THEN 0
                             ELSE hist.starts]
    /\ UNCHANGED <<mgr, rt, snd>>

SetParamsOp ==
  \E params \in EnvelopeParams :
    /\ env' = SetParams(env, params)
    /\ lastOp' = [op |-> "set_params", note |-> 0, dt |-> 0]
    /\ pre' = Before(env, hist)
    /\ mid' = NoMid
    /\ hist' = [hist EXCEPT !.held = FALSE, !.heldDt = 0, !.elapsed = 0, !.ended = FALSE,
                            !.sinceEnd = 0, !.retrig = FALSE]
    /\ UNCHANGED <<mgr, rt, snd>>

\* notes played, retriggered and released on an envelope whose parameters stay as built
StartOp ==
  \E note_id \in Notes :
    /\ StartIgnored(env, note_id) \/ hist.starts < MaxStarts
    /\ StartCall(note_id)

Next == StartOp \/ EndOp \/ UpdateOp

Spec == Init /\ [][Next]_vars

\* notes played from silence and released while the parameters are edited
StartIdleOp ==
  \E note_id \in Notes :
    /\ StartIgnored(env, note_id) \/ env.state = "Idle"
    /\ StartCall(note_id)

NextParams == StartIdleOp \/ EndOp \/ UpdateOp \/ SetParamsOp

SpecParams == Init /\ [][NextParams]_vars

----------------------------------------------------------------------------
(* EnvelopeManager: a vector of envelopes driven as a batch.  In the        *)
(* specification of the manager one tick is 10 ms.                          *)

\* EnvelopeParams::default(): 0.01 s, 0.1 s, 0.7, 0.2 s
DefaultParams ==
  [attack |-> 1, decay |-> 10, sustain |-> (7 * One) \div 10, release |-> 20]

ManagerNew ==
  [ envelopes |-> <<New(DefaultParams)>>, params |-> DefaultParams,
    is_triggered |-> FALSE, is_processing |-> FALSE ]

StartAll(m, note_id) ==
  IF ~m.is_triggered /\ ~m.is_processing
    THEN [m EXCEPT !.envelopes = [i \in DOMAIN m.envelopes |-> Start(m.envelopes[i], note_id)],
                   !.is_triggered = TRUE,
                   !.is_processing = TRUE]
    ELSE m

EndAll(m) ==
  IF m.is_triggered /\ m.is_processing
    THEN [m EXCEPT !.envelopes = [i \in DOMAIN m.envelopes |-> End(m.envelopes[i])],
                   !.is_triggered = FALSE,
                   !.is_processing = FALSE]
    ELSE m

UpdateAll(m, delta_time) ==
  IF m.is_processing
    THEN [m EXCEPT !.envelopes =
                     [i \in DOMAIN m.envelopes |-> Update(m.envelopes[i], delta_time)]]
    ELSE m

ManagerGetValue(m, index) ==
  IF index + 1 \in DOMAIN m.envelopes THEN GetValue(m.envelopes[index + 1]) ELSE 0

ManagerSetParams(m, params) ==
  [m EXCEPT !.params = params,
            !.envelopes = [i \in DOMAIN m.envelopes |-> SetParams(m.envelopes[i], params)]]

\* the largest time since end_all() the history keeps apart
SinceEndCap(m) == m.params.release + 1

InitManager ==
  /\ mgr = ManagerNew
  /\ lastOp = NoOp
  /\ hist = NoHist
  /\ env = NotBuilt
  /\ pre = NotBuilt
  /\ mid = NoMid
  /\ rt = NotBuilt
  /\ snd = NotBuilt

StartAllOp ==
  \E note_id \in Notes :
    /\ StartAll(mgr, note_id) = mgr \/ hist.starts < MaxStarts
    /\ mgr' = StartAll(mgr, note_id)
    /\ lastOp' = [op |-> "start_all", note |-> note_id, dt |-> 0]
    /\ hist' = IF mgr' # mgr
                 THEN [NoHist EXCEPT !.held = TRUE, !.starts = hist.starts + 1]
                 ELSE hist
    /\ UNCHANGED <<env, pre, mid, rt, snd>>

EndAllOp ==
  /\ mgr' = EndAll(mgr)
  /\ lastOp' = [op |-> "end_all", note |-> 0, dt |-> 0]
  /\ hist' = IF mgr' # mgr
               THEN [NoHist EXCEPT !.ended = hist.held, !.relUsed = mgr.params.release,
                                   !.starts = hist.starts]
               ELSE hist
  /\ UNCHANGED <<env, pre, mid, rt, snd>>

UpdateAllOp ==
  \E delta_time \in DeltaTimes :
    /\ \A i \in DOMAIN mgr.envelopes :
         (mgr.is_processing /\ mgr.envelopes[i].state = "Sustain")
            => mgr.envelopes[i].phase_time + delta_time <= MaxSustain
    /\ mgr' = UpdateAll(mgr, delta_time)
    /\ lastOp' = [op |-> "update_all", note |-> 0, dt |-> delta_time]
    /\ hist' = [hist EXCEPT
                  !.sinceEnd = IF hist.ended
                                 THEN IF hist.sinceEnd + delta_time > SinceEndCap(mgr)
                                        THEN SinceEndCap(mgr)
                                        ELSE hist.sinceEnd + delta_time
                                 ELSE 0,
                  !.starts = IF \A i \in DOMAIN mgr.envelopes :
                                  UpdateAll(mgr, delta_time).envelopes[i].state = "Idle"
                               THEN 0
                               ELSE hist.starts]
    /\ UNCHANGED <<env, pre, mid, rt, snd>>

NextManager == StartAllOp \/ EndAllOp \/ UpdateAllOp

SpecManager == InitManager /\ [][NextManager]_vars

----------------------------------------------------------------------------
(* The threads: the audio callback (audio.rs), the GUI frame (app.rs), the  *)
(* MIDI callback and the watchdog (midi.rs), around the shared state.       *)
(* std::sync::Mutex: lock() waits until the mutex is free, try_lock() fails *)
(* at once when it is held.  A guard is held from the step that takes it to *)
(* the step that drops it.  Here too one tick is 10 ms.                     *)

\* frames of one output buffer
BufLen == 2

\* data.len() / sample_rate, the time one buffer covers
BufferDt == 1

Threads == {"audio", "gui", "midi", "watchdog"}

Mutexes == {"current_freq", "midi_freq", "unison", "envelope", "last_note_off"}

\* Option<Instant>::None; Some(t) is kept as the time elapsed since t
NoTime == -1

Waveforms == {"Sine", "Triangle", "Square", "Sawtooth"}

\* UnisonSettings::default()
UnisonDefault == [voices |-> 1, detune |-> 0, waveform |-> "Sine"]

\* a frame of the output buffer: what the host left there, silence, or the waveform
\* of the unison voices at a frequency scaled by the envelope gain
HostFrames == { [kind |-> "host", gain |-> g, freq |-> 0, voices |-> 0] : g \in {0, One} }

Silence == [kind |-> "written", gain |-> 0, freq |-> 0, voices |-> 0]

Tone(gain, freq, settings) ==
  [kind |-> "written", gain |-> gain, freq |-> freq, voices |-> settings.voices]

\* play_sine_wave is called with 0.0 (app.rs) or with the frequency shown (main.rs)
InitialFreqs == {0, 440}

RtNew(initial_freq) ==
  [ initial_freq |-> initial_freq,
    current_freq |-> 0, midi_freq |-> 0, gui_freq |-> 0,
    last_freq |-> initial_freq,
    last_note_off |-> NoTime,
    unison |-> UnisonDefault,
    holder |-> [m \in Mutexes |-> "none"],
    pc |-> [t \in Threads |-> "idle"],
    a_freq |-> 0, a_used |-> 0, a_settings |-> UnisonDefault,
    a_tried |-> [current_freq |-> "none", unison |-> "none"],
    a_ran |-> FALSE,
    observed |-> 0,
    a_updates |-> 0,
    data |-> [i \in 1..BufLen |-> Silence],
    note |-> 0,
    held |-> {},
    widget |-> 0,
    received |-> 0,
    handled |-> "none",
    zeroed |-> FALSE,
    sleep |-> 0 ]

\* held: the notes whose note on (velocity > 0) has been handled and whose note off
\* (or note on with velocity 0) has not arrived;
\* a_tried: how the try_lock()s of the running callback went; a_ran: the callback
\* before it chose a frequency; observed: the last frequency above 0 that the
\* callback read from current_freq (0: none yet); a_updates: the calls of
\* Envelope::update() by the running callback; handled: the branch of the last message handled;
\* zeroed: the watchdog has stopped the last note

Free(m) == rt.holder[m] = "none"

\* the mutex whose lock() a thread has reached
WaitsFor(t) ==
  LET at == rt.pc[t] IN
  CASE t = "audio" /\ at = "lock_envelope" -> "envelope"
    [] t = "gui" /\ at = "lock_unison" -> "unison"
    [] t = "gui" /\ at = "lock_envelope" -> "envelope"
    [] t = "midi" /\ at = "lock_freq" -> "current_freq"
    [] t = "midi" /\ at \in {"lock_clear", "lock_off_zero", "lock_off"} -> "last_note_off"
    [] t = "watchdog" /\ at = "lock_off" -> "last_note_off"
    [] t = "watchdog" /\ at = "lock_freq" -> "current_freq"
    [] OTHER -> "none"

\* a thread waits in lock() for a mutex that thread by holds
BlockedBy(t, by) == WaitsFor(t) # "none" /\ rt.holder[WaitsFor(t)] = by

Goto(r, t, label) == [r EXCEPT !.pc[t] = label]

Take(r, t, m) == [r EXCEPT !.holder[m] = t]

Drop(r, m) == [r EXCEPT !.holder[m] = "none"]

EnvFrame == UNCHANGED <<env, lastOp, pre, mid, hist, mgr, snd>>

(* audio.rs 46-121: the output callback *)

\* the host calls the callback with a buffer of its own
AudioBegin ==
  /\ rt.pc["audio"] = "idle"
  /\ \E d \in [1..BufLen -> HostFrames] :
       rt' = [Goto(rt, "audio", "try_freq") EXCEPT
                !.data = d, !.a_tried = [current_freq |-> "none", unison |-> "none"],
                !.a_updates = 0]
  /\ EnvFrame

\* 48-52: current_freq.try_lock()
AudioTryFreq ==
  /\ rt.pc["audio"] = "try_freq"
  /\ rt' = IF Free("current_freq")
             THEN [Take(Goto(rt, "audio", "read_freq"), "audio", "current_freq")
                     EXCEPT !.a_tried.current_freq = "ok"]
             ELSE [Goto(rt, "audio", "save_freq") EXCEPT
                     !.a_freq = rt.initial_freq, !.a_tried.current_freq = "held"]
  /\ EnvFrame

AudioReadFreq ==
  /\ rt.pc["audio"] = "read_freq"
  /\ rt' = [Drop(Goto(rt, "audio", "save_freq"), "current_freq") EXCEPT
              !.a_freq = rt.current_freq,
              !.observed = IF rt.current_freq > 0 THEN rt.current_freq ELSE rt.observed]
  /\ EnvFrame

\* 55-59: a positive frequency is remembered (last_freq is locked by this thread only)
AudioSaveFreq ==
  /\ rt.pc["audio"] = "save_freq"
  /\ rt' = [Goto(rt, "audio", "try_unison") EXCEPT
              !.last_freq = IF rt.a_freq > 0 THEN rt.a_freq ELSE rt.last_freq]
  /\ EnvFrame

\* 62-66: the unison settings' try_lock(); when it fails the callback returns
AudioTryUnison ==
  /\ rt.pc["audio"] = "try_unison"
  /\ rt' = IF Free("unison")
             THEN [Take(Goto(rt, "audio", "clone_unison"), "audio", "unison")
                     EXCEPT !.a_tried.unison = "ok"]
             ELSE [Goto(rt, "audio", "idle") EXCEPT
                     !.a_tried.unison = "held", !.a_freq = 0, !.a_ran = FALSE]
  /\ EnvFrame

AudioCloneUnison ==
  /\ rt.pc["audio"] = "clone_unison"
  /\ rt' = [Drop(Goto(rt, "audio", "lock_envelope"), "unison") EXCEPT
              !.a_settings = rt.unison,
              !.a_ran = TRUE,
              \* 69-77: the frequency of this buffer
              !.a_used = IF rt.a_freq <= 0 THEN rt.last_freq ELSE rt.a_freq]
  /\ EnvFrame

\* 80: envelope.lock()
AudioLockEnvelope ==
  /\ rt.pc["audio"] = "lock_envelope"
  /\ Free("envelope")
  /\ rt' = Take(Goto(rt, "audio", "update_envelope"), "audio", "envelope")
  /\ EnvFrame

\* 93-116: the gain of frame i between the envelope values around the update
FrameGain(start_value, end_value, i) ==
  start_value + ((end_value - start_value) * i) \div BufLen

Render(start_value, end_value, freq, settings) ==
  [i \in 1..BufLen |->
     IF FrameGain(start_value, end_value, i - 1) > 0
       THEN Tone(FrameGain(start_value, end_value, i - 1), freq, settings)
       ELSE Silence]

\* 81-87 and 93-120: the envelope is advanced by one buffer and the frames written
AudioUpdateEnvelope ==
  /\ rt.pc["audio"] = "update_envelope"
  /\ env' = Update(env, BufferDt)
  /\ rt' = [Drop(Goto(rt, "audio", "idle"), "envelope") EXCEPT
              !.data = Render(GetValue(env), GetValue(env'), rt.a_used, rt.a_settings),
              !.a_updates = rt.a_updates + 1,
              !.a_freq = 0,
              !.a_settings = UnisonDefault]
  /\ UNCHANGED <<lastOp, pre, mid, hist, mgr, snd>>

AudioCallback ==
  \/ AudioBegin \/ AudioTryFreq \/ AudioReadFreq \/ AudioSaveFreq
  \/ AudioTryUnison \/ AudioCloneUnison \/ AudioLockEnvelope \/ AudioUpdateEnvelope

(* midi.rs 17-62: the MIDI callback *)

\* status bytes: Note On, Note Off, and the mask that removes the channel
NoteOnStatus == 144

NoteOffStatus == 128

StatusModulus == 16

\* the locals of a callback are kept only while it runs: a_freq, a_settings and note
\* are cleared when their callback returns

\* the note of A4 and its frequency
A4Note == 69

A4Freq == 440

\* messages the port delivers: note on/off on two channels with velocity 0 or not,
\* a control change, and a one-byte real-time message
MidiNotes == {69, 81}

MidiMessages ==
  { <<st, n, v>> : st \in {144, 145, 128, 129, 176}, n \in MidiNotes, v \in {0, 100} }
    \cup { <<248>> }

\* the number of messages received is counted up to MaxMessages
MaxMessages == 2

\* 31: 440 * 2^((note - 69) / 12), for notes whole octaves from A4
NoteFreq(note) ==
  IF note >= A4Note
    THEN A4Freq * 2 ^ ((note - A4Note) \div 12)
    ELSE A4Freq \div 2 ^ ((A4Note - note) \div 12)

\* 20-60: the branch a message takes
MidiBranch(message) ==
  IF Len(message) < 3 THEN "ignored"
  ELSE LET status == message[1] - (message[1] % StatusModulus) IN
       IF status = NoteOnStatus
         THEN IF message[3] > 0 THEN "note_on" ELSE "note_on_zero"
       ELSE IF status = NoteOffStatus THEN "note_off"
       ELSE "other"

\* 35: the frequency of the note is stored
NoteOnWriteFreq(r, note) == [r EXCEPT !.current_freq = NoteFreq(note)]

\* 40: a note on disarms the watchdog
NoteOnWriteOff(r) == [r EXCEPT !.last_note_off = NoTime]

\* faulty variant of NoteOnZeroWrite: velocity 0 handled as the note on branch ends
NoteOnZeroDisarms(r) == [r EXCEPT !.last_note_off = NoTime]

\* 46: a note on with velocity 0 arms the watchdog, Some(Instant::now())
NoteOnZeroWrite(r) == [r EXCEPT !.last_note_off = 0]

\* 54: a note off arms the watchdog, Some(Instant::now())
NoteOffWrite(r) == [r EXCEPT !.last_note_off = 0]

MidiReceive(message) ==
  /\ rt.pc["midi"] = "idle"
  /\ rt' = [Goto(rt, "midi",
                 CASE MidiBranch(message) = "note_on" -> "lock_freq"
                   [] MidiBranch(message) = "note_on_zero" -> "lock_off_zero"
                   [] MidiBranch(message) = "note_off" -> "lock_off"
                   [] OTHER -> "idle")
              EXCEPT !.note = IF MidiBranch(message) = "note_on" THEN message[2] ELSE 0,
                     !.held = IF MidiBranch(message) \in {"note_on_zero", "note_off"}
                                THEN rt.held \ {message[2]}
                                ELSE rt.held,
                     !.received = IF rt.received < MaxMessages THEN rt.received + 1
                                  ELSE MaxMessages]
  /\ EnvFrame

\* 34: current_freq.lock()
MidiLockFreq ==
  /\ rt.pc["midi"] = "lock_freq"
  /\ Free("current_freq")
  /\ rt' = Take(Goto(rt, "midi", "write_freq"), "midi", "current_freq")
  /\ EnvFrame

\* faulty variant of MidiWriteFreq: the guard of current_freq is kept to the end of
\* the callback
MidiWriteFreqKeepsGuard ==
  /\ rt.pc["midi"] = "write_freq"
  /\ rt' = [NoteOnWriteFreq(Goto(rt, "midi", "lock_clear"), rt.note)
              EXCEPT !.zeroed = FALSE]
  /\ EnvFrame

MidiWriteFreq ==
  /\ rt.pc["midi"] = "write_freq"
  /\ rt' = [NoteOnWriteFreq(Drop(Goto(rt, "midi", "lock_clear"), "current_freq"), rt.note)
              EXCEPT !.zeroed = FALSE]
  /\ EnvFrame

\* 39, 45, 53: last_note_off.lock()
MidiLockOff ==
  /\ rt.pc["midi"] \in {"lock_clear", "lock_off_zero", "lock_off"}
  /\ Free("last_note_off")
  /\ rt' = Take(Goto(rt, "midi",
                     CASE rt.pc["midi"] = "lock_clear" -> "clear"
                       [] rt.pc["midi"] = "lock_off_zero" -> "set_off_zero"
                       [] rt.pc["midi"] = "lock_off" -> "set_off"),
                "midi", "last_note_off")
  /\ EnvFrame

MidiWriteOff ==
  /\ rt.pc["midi"] \in {"clear", "set_off_zero", "set_off"}
  /\ rt' = LET r == [Drop(Goto(rt, "midi", "idle"), "last_note_off") EXCEPT
                       !.note = 0,
                       !.held = IF rt.pc["midi"] = "clear" THEN rt.held \cup {rt.note}
                                ELSE rt.held,
                       !.handled = CASE rt.pc["midi"] = "clear" -> "note_on"
                                     [] rt.pc["midi"] = "set_off_zero" -> "note_on_zero"
                                     [] rt.pc["midi"] = "set_off" -> "note_off"] IN
           CASE rt.pc["midi"] = "clear" -> NoteOnWriteOff(r)
             [] rt.pc["midi"] = "set_off_zero" -> NoteOnZeroWrite(r)
             [] rt.pc["midi"] = "set_off" -> NoteOffWrite(r)
  /\ EnvFrame

MidiHandle == MidiLockFreq \/ MidiWriteFreq \/ MidiLockOff \/ MidiWriteOff

(* midi.rs 67-83: the watchdog thread *)

\* sleep between checks and grace after a note off, in ms
SleepMs == 50

GraceMs == 100

\* the step of the clock, in ms
ClockStep == 50

\* faulty variant of Expired: >= where > is meant
ExpiredEarly(elapsed) == elapsed >= GraceMs

\* 72: time.elapsed() > 100 ms
Expired(elapsed) == elapsed > GraceMs

\* 69: the sleep is over
WatchdogWake ==
  /\ rt.pc["watchdog"] = "idle"
  /\ rt.sleep = 0
  /\ rt' = Goto(rt, "watchdog", "lock_off")
  /\ EnvFrame

\* 70: last_note_off.lock()
WatchdogLockOff ==
  /\ rt.pc["watchdog"] = "lock_off"
  /\ Free("last_note_off")
  /\ rt' = Take(Goto(rt, "watchdog", "check"), "watchdog", "last_note_off")
  /\ EnvFrame

\* 71-72: nothing to do unless a note off is older than the grace period
WatchdogCheck ==
  /\ rt.pc["watchdog"] = "check"
  /\ rt' = IF rt.last_note_off # NoTime /\ Expired(rt.last_note_off)
             THEN Goto(rt, "watchdog", "lock_freq")
             ELSE [Drop(Goto(rt, "watchdog", "idle"), "last_note_off") EXCEPT
                     !.sleep = SleepMs]
  /\ EnvFrame

\* 73: current_freq.lock(), with last_note_off still held
WatchdogLockFreq ==
  /\ rt.pc["watchdog"] = "lock_freq"
  /\ Free("current_freq")
  /\ rt' = Take(Goto(rt, "watchdog", "zero"), "watchdog", "current_freq")
  /\ EnvFrame

\* 74-76: the frequency is set to 0; both guards are dropped
WatchdogZero ==
  /\ rt.pc["watchdog"] = "zero"
  /\ rt' = [Drop(Drop(Goto(rt, "watchdog", "idle"), "current_freq"), "last_note_off")
              EXCEPT !.current_freq = 0, !.sleep = SleepMs,
                     !.zeroed = (rt.current_freq # 0)]
  /\ EnvFrame

Watchdog ==
  WatchdogWake \/ WatchdogLockOff \/ WatchdogCheck \/ WatchdogLockFreq \/ WatchdogZero

\* time passes: the sleep runs down and the note off grows older (an age past the
\* grace period is kept as one value)
Tick ==
  /\ rt' = [rt EXCEPT
              !.sleep = IF rt.sleep > ClockStep THEN rt.sleep - ClockStep ELSE 0,
              !.last_note_off =
                 IF rt.last_note_off = NoTime THEN NoTime
                 ELSE IF Expired(rt.last_note_off) THEN rt.last_note_off
                 ELSE rt.last_note_off + ClockStep]
  /\ rt' # rt
  /\ EnvFrame

(* unison.rs 83-99: the setters of UnisonManager, applied under its mutex *)

Clamp(x, lo, hi) == IF x < lo THEN lo ELSE IF x > hi THEN hi ELSE x

SetVoices(settings, voices) == [settings EXCEPT !.voices = Clamp(voices, 1, 8)]

SetDetune(settings, detune) == [settings EXCEPT !.detune = Clamp(detune, 0, 100)]

SetWaveform(settings, waveform) == [settings EXCEPT !.waveform = waveform]

(* app.rs 46-225: one frame of the GUI, between Connect and Disconnect *)

\* what the user can do to the widgets in a frame
GuiWaveforms == {"Sine", "Square"}

GuiVoices == {1, 2}

GuiDetunes == {0, 100}

GuiParams == {DefaultParams, [attack |-> 2, decay |-> 4, sustain |-> One, release |-> 4]}

SliderFreqs == {100}

\* the widgets that lock the unison settings, in the order of the frame
UnisonWidgets ==
  <<"read_waveform", "set_waveform", "read_voices", "set_voices", "read_detune", "set_detune">>

\* 48-49: midi_freq.try_lock() (only this thread locks it) and the copy to self.freq
GuiBegin ==
  /\ rt.pc["gui"] = "idle"
  /\ Free("midi_freq")
  /\ rt' = [Take(Goto(rt, "gui", "try_freq"), "gui", "midi_freq") EXCEPT
              !.gui_freq = rt.midi_freq]
  /\ EnvFrame

\* 51 and 218: current_freq.try_lock()
GuiTryFreq ==
  /\ rt.pc["gui"] \in {"try_freq", "try_slider"}
  /\ rt' = IF Free("current_freq")
             THEN Take(Goto(rt, "gui", IF rt.pc["gui"] = "try_freq" THEN "write_freq"
                                                                   ELSE "write_slider"),
                       "gui", "current_freq")
             ELSE IF rt.pc["gui"] = "try_freq"
                    THEN [Drop(Goto(rt, "gui", "lock_unison"), "midi_freq") EXCEPT
                            !.widget = 1]
                    ELSE Goto(rt, "gui", "idle")
  /\ EnvFrame

\* 52 and 219: *current_freq = self.freq
GuiWriteFreq ==
  /\ rt.pc["gui"] \in {"write_freq", "write_slider"}
  /\ rt' = LET r == [Drop(rt, "current_freq") EXCEPT !.current_freq = rt.gui_freq] IN
           IF rt.pc["gui"] = "write_freq"
             THEN [Drop(Goto(r, "gui", "lock_unison"), "midi_freq") EXCEPT !.widget = 1]
             ELSE Goto(r, "gui", "idle")
  /\ EnvFrame

\* 149, 164, 171, 177, 180, 186: the settings' lock()
GuiLockUnison ==
  /\ rt.pc["gui"] = "lock_unison"
  /\ Free("unison")
  /\ rt' = Take(Goto(rt, "gui", "in_unison"), "gui", "unison")
  /\ EnvFrame

\* the widget reads the settings, or stores what the user chose (by default what was read)
GuiUnison ==
  /\ rt.pc["gui"] = "in_unison"
  /\ \E waveform \in GuiWaveforms \cup {rt.unison.waveform},
        voices \in GuiVoices \cup {rt.unison.voices},
        detune \in GuiDetunes \cup {rt.unison.detune} :
       LET w == UnisonWidgets[rt.widget]
           r == Drop(Goto(rt, "gui", IF rt.widget < Len(UnisonWidgets)
                                       THEN "lock_unison" ELSE "lock_envelope"),
                     "unison")
       IN rt' = [r EXCEPT
                   !.widget = IF rt.widget < Len(UnisonWidgets) THEN rt.widget + 1 ELSE 0,
                   !.unison = CASE w = "set_waveform" -> SetWaveform(rt.unison, waveform)
                                [] w = "set_voices" -> SetVoices(rt.unison, voices)
                                [] w = "set_detune" -> SetDetune(rt.unison, detune)
                                [] OTHER -> rt.unison]
  /\ EnvFrame

\* 192: envelope.lock()
GuiLockEnvelope ==
  /\ rt.pc["gui"] = "lock_envelope"
  /\ Free("envelope")
  /\ rt' = Take(Goto(rt, "gui", "in_envelope"), "gui", "envelope")
  /\ EnvFrame

\* 193-208: the sliders edit a copy of the parameters, which set_params() stores
GuiSetParams ==
  /\ rt.pc["gui"] = "in_envelope"
  /\ \E params \in GuiParams \cup {env.params} : env' = SetParams(env, params)
  /\ rt' = Drop(Goto(rt, "gui", "slider"), "envelope")
  /\ UNCHANGED <<lastOp, pre, mid, hist, mgr, snd>>

\* 213-216: the frequency slider; self.freq stays or becomes a value of the slider
GuiSlider ==
  /\ rt.pc["gui"] = "slider"
  /\ \E f \in SliderFreqs \cup {rt.gui_freq} :
       rt' = [Goto(rt, "gui", "try_slider") EXCEPT !.gui_freq = f]
  /\ EnvFrame

GuiFrame ==
  \/ GuiBegin \/ GuiTryFreq \/ GuiWriteFreq \/ GuiLockUnison \/ GuiUnison
  \/ GuiLockEnvelope \/ GuiSetParams \/ GuiSlider

(* the running program: the envelope of SynthApp::default(), the stream and the MIDI *)
(* connection opened                                                                *)

InitThreads ==
  /\ \E initial_freq \in InitialFreqs :
       rt = [RtNew(initial_freq) EXCEPT !.sleep = SleepMs]
  /\ env = New(DefaultParams)
  /\ lastOp = NoOp
  /\ hist = NoHist
  /\ pre = Before(env, hist)
  /\ mid = NoMid
  /\ mgr = NotBuilt
  /\ snd = NotBuilt

MidiCallback == (\E message \in MidiMessages : MidiReceive(message)) \/ MidiHandle

(* the setters called one after another with any arguments *)

\* a u8, cents and parameter records in and out of their domains
AnyVoices == {0, 1, 5, 8, 9, 255}

AnyDetunes == {-1, 0, 50, 100, 101}

AnyParams ==
  { DefaultParams,
    [attack |-> 0, decay |-> 10, sustain |-> (7 * One) \div 10, release |-> 20],
    [attack |-> 1, decay |-> 10, sustain |-> 2 * One, release |-> 20],
    [attack |-> 1, decay |-> 10, sustain |-> (7 * One) \div 10, release |-> -20] }

InitSetters ==
  /\ rt = RtNew(0)
  /\ env = New(DefaultParams)
  /\ mgr = ManagerNew
  /\ lastOp = NoOp
  /\ hist = NoHist
  /\ pre = Before(env, hist)
  /\ mid = NoMid
  /\ snd = NotBuilt

SetVoicesOp ==
  /\ \E voices \in AnyVoices : rt' = [rt EXCEPT !.unison = SetVoices(rt.unison, voices)]
  /\ lastOp' = [op |-> "set_voices", note |-> 0, dt |-> 0]
  /\ UNCHANGED <<env, mgr, pre, mid, hist, snd>>

SetDetuneOp ==
  /\ \E detune \in AnyDetunes : rt' = [rt EXCEPT !.unison = SetDetune(rt.unison, detune)]
  /\ lastOp' = [op |-> "set_detune", note |-> 0, dt |-> 0]
  /\ UNCHANGED <<env, mgr, pre, mid, hist, snd>>

SetWaveformOp ==
  /\ \E waveform \in Waveforms :
       rt' = [rt EXCEPT !.unison = SetWaveform(rt.unison, waveform)]
  /\ lastOp' = [op |-> "set_waveform", note |-> 0, dt |-> 0]
  /\ UNCHANGED <<env, mgr, pre, mid, hist, snd>>

EnvelopeSetParamsOp ==
  /\ \E params \in AnyParams : env' = SetParams(env, params)
  /\ lastOp' = [op |-> "set_params", note |-> 0, dt |-> 0]
  /\ UNCHANGED <<rt, mgr, pre, mid, hist, snd>>

ManagerSetParamsOp ==
  /\ \E params \in AnyParams : mgr' = ManagerSetParams(mgr, params)
  /\ lastOp' = [op |-> "manager.set_params", note |-> 0, dt |-> 0]
  /\ UNCHANGED <<rt, env, pre, mid, hist, snd>>

NextSetters ==
  SetVoicesOp \/ SetDetuneOp \/ SetWaveformOp \/ EnvelopeSetParamsOp \/ ManagerSetParamsOp

SpecSetters == InitSetters /\ [][NextSetters]_vars

\* the audio callback beside the GUI
NextAudio == AudioCallback \/ GuiFrame

SpecAudio == InitThreads /\ [][NextAudio]_vars

\* the MIDI callback beside its watchdog
NextMidi == MidiCallback \/ Watchdog \/ Tick

SpecMidi == InitThreads /\ [][NextMidi]_vars

\* the same with MaxMessages messages at most, time passing, and every thread that
\* can take a step taking one
MidiReceiveSome ==
  /\ rt.received < MaxMessages
  /\ \E message \in MidiMessages : MidiReceive(message)

NextMidiFair == MidiReceiveSome \/ MidiHandle \/ Watchdog \/ Tick

SpecMidiFair ==
  /\ InitThreads
  /\ [][NextMidiFair]_vars
  /\ WF_vars(MidiHandle)
  /\ WF_vars(Watchdog)
  /\ WF_vars(Tick)

----------------------------------------------------------------------------
(* Malformed stage durations: envelopes built with durations of zero or less *)

\* update(delta_time): the divisors of the phase ratios it computes, one in a stage
\* that has not run out, none otherwise
UpdateDivisorsLate(e, delta_time) ==
  IF ~e.is_triggered \/ ~e.is_processing
    THEN {}
    ELSE LET a == UpdateAdvance(e, delta_time) IN
         CASE a.state = "Attack" ->
                IF a.phase_time > a.params.attack THEN {} ELSE {a.params.attack}
           [] a.state = "Decay" ->
                IF a.phase_time > a.params.decay THEN {} ELSE {a.params.decay}
           [] a.state = "Release" ->
                IF a.release_phase_time + delta_time > a.params.release
                  THEN {} ELSE {a.params.release}
           [] OTHER -> {}

UpdateDivisors(e, delta_time) ==
  IF ~e.is_triggered \/ ~e.is_processing
    THEN {}
    ELSE LET a == UpdateAdvance(e, delta_time) IN
         CASE a.state = "Attack" ->
                IF a.phase_time >= a.params.attack THEN {} ELSE {a.params.attack}
           [] a.state = "Decay" ->
                IF a.phase_time >= a.params.decay THEN {} ELSE {a.params.decay}
           [] a.state = "Release" ->
                IF a.release_phase_time + delta_time >= a.params.release
                  THEN {} ELSE {a.params.release}
           [] OTHER -> {}

\* durations of zero or less beside a well-formed one
AnyDurations == {-1, 0, 2}

\* steps of update(): none, or some time
AnyDeltaTimes == {0, 1, 2}

MalformedParams ==
  [attack : AnyDurations, decay : AnyDurations, sustain : {One \div 2},
   release : AnyDurations]

InitDurations ==
  /\ \E params \in MalformedParams : env = New(params)
  /\ lastOp = NoOp
  /\ hist = NoHist
  /\ pre = Before(env, hist)
  /\ mid = NoMid
  /\ mgr = NotBuilt
  /\ rt = NotBuilt
  /\ snd = NotBuilt

UpdateAnyOp ==
  \E delta_time \in AnyDeltaTimes :
    /\ env.state = "Sustain" => env.phase_time + delta_time <= MaxSustain
    /\ env' = Update(env, delta_time)
    /\ lastOp' = [op |-> "update", note |-> 0, dt |-> delta_time]
    /\ pre' = Before(env, hist)
    /\ mid' = NoMid
    /\ hist' = [hist EXCEPT !.held = FALSE, !.heldDt = 0, !.elapsed = 0,
                            !.relUsed = env.params.release,
                            !.starts = IF Update(env, delta_time).state = "Idle" THEN 0
                                       ELSE hist.starts]
    /\ UNCHANGED <<mgr, rt, snd>>

NextDurations == StartOp \/ EndOp \/ UpdateAnyOp

SpecDurations == InitDurations /\ [][NextDurations]_vars

----------------------------------------------------------------------------
(* oscillator.rs: the waveform generator.  Samples are integers in units of   *)
(* 1/Full, phases in units of 1/Full of a cycle (rounded down), frequencies   *)
(* in units of 1/Full Hz, filter_alpha and smoothing_strength in units of     *)
(* 1/Quarter.  t is the time in samples: t seconds of the source are          *)
(* t / sample_rate here.                                                      *)

\* 1.0 in sample, phase and frequency units
Full == 1000

\* 1.0 in the units of filter_alpha and smoothing_strength
Quarter == 4

\* the amplitude 0.8 of the triangle, square and sawtooth waves
Amplitude == 800

\* 2 pi radians, in units of 1/Full
TwoPi == 6283

Abs(x) == IF x < 0 THEN -x ELSE x

\* f32::signum: 1.0 for a positive number and +0.0, -1.0 for a negative one
Signum(x) == IF x >= 0 THEN 1 ELSE -1

\* sin(2 pi p / Full) for a phase p in 0..Full-1, by Bhaskara's rational
\* approximation 16 u (1 - u) / (5 - 4 u (1 - u)), u = 2 p: within 0.002 of it,
\* with its sign, its zeros and its extremes
SinOfPhase(p) ==
  LET h == p % (Full \div 2)
      w == (2 * h) * (Full - 2 * h)
      v == (16 * w) \div ((5 * Full * Full - 4 * w) \div Full)
  IN  IF p < Full \div 2 THEN v ELSE -v

\* x.sin() for x radians (units of 1/Full), 0 <= x
SinOfRadians(x) == SinOfPhase(((x * Full) \div TwoPi) % Full)

\* faulty variant of ApplySmoothing: the input is not limited to [-1, 1]
ApplySmoothingUnclamped(input, smoothing_strength) ==
  LET strength == smoothing_strength * 2
  IN  (input * (Full * Quarter - Abs(input) * strength)) \div (Full * Quarter)

ApplySmoothing(input, smoothing_strength) ==
  LET strength == smoothing_strength * 2
      x == IF input < -Full THEN -Full ELSE IF input > Full THEN Full ELSE input
  IN  (x * (Full * Quarter - Abs(x) * strength)) \div (Full * Quarter)

ApplyLowpassFilter(input, prev_output, filter_alpha) ==
  LET alpha == filter_alpha * 2
  IN  prev_output + (alpha * (input - prev_output)) \div Quarter

\* the square wave as written: the sign of the sine of the phase taken as radians
SquareSample(phase) == Signum(SinOfRadians(phase)) * Amplitude

RawSample(waveform, phase) ==
  CASE waveform = "Sine" -> SinOfPhase(phase)
    [] waveform = "Triangle" ->
         LET x == phase * 2 - Full IN Signum(Abs(x) * 2 - Full) * Amplitude
    [] waveform = "Square" -> SquareSample(phase)
    [] waveform = "Sawtooth" ->
         LET x == phase * 2 - Full
         IN  ((x - Signum(Abs(x) * 2 - Full) * (Full \div 2)) * Amplitude) \div Full

\* the phase of oversampling step i: fract((t + i * dt) * frequency)
PhaseAt(frequency, t, i, sample_rate, settings) ==
  LET steps == t * settings.oversample_ratio + i
      cycle == sample_rate * settings.oversample_ratio
  IN  ((steps * frequency) % (cycle * Full)) \div cycle

\* the loop of generate_waveform from step i on: the sum of the smoothed samples
RECURSIVE Oversample(_, _, _, _, _, _, _)
Oversample(waveform, frequency, t, sample_rate, settings, i, prev_sample) ==
  IF i >= settings.oversample_ratio
    THEN 0
    ELSE LET raw_sample == RawSample(waveform, PhaseAt(frequency, t, i, sample_rate, settings))
             filtered == ApplyLowpassFilter(raw_sample, prev_sample, settings.filter_alpha)
             smoothed == ApplySmoothing(filtered, settings.smoothing_strength)
         IN  smoothed
               + Oversample(waveform, frequency, t, sample_rate, settings, i + 1, filtered)

\* the quotient of the source's division, which rounds towards zero
Quot(a, b) == IF a >= 0 THEN a \div b ELSE -((-a) \div b)

GenerateWaveform(waveform, frequency, t, sample_rate, settings) ==
  Quot(Oversample(waveform, frequency, t, sample_rate, settings, 0, 0),
       settings.oversample_ratio)

----------------------------------------------------------------------------
(* unison.rs 27-65: generate_unison.  The body under src/ calls               *)
(* generate_waveform(waveform, freq, t); the generator takes the sample rate  *)
(* and the oscillator settings as well, which audio.rs hands to               *)
(* generate_unison: they are passed on.  Detune is in cents, detune amounts   *)
(* in units of 1/CentDen cent (2 * CentDen is a multiple of every             *)
(* voices - 1, so the step is exact), frequency ratios in units of 1/Mega.    *)

\* the units of a cent in a detune amount
CentDen == 210

\* 1.0 in the units of a frequency ratio
Mega == 1000000

\* ln(2) / 1200 in units of 1/(Mega * 10000): the exponent of one cent
LnCent == 5776227

\* 2^(cents / 1200) for an amount in units of 1/CentDen cent: the series
\* 1 + a + a^2/2 + a^3/6 of exp(a), a = cents * ln(2) / 1200 (within 0.00001
\* of it for amounts up to 200 cents)
DetuneRatio(detune_amount) ==
  LET a == Quot(detune_amount * (LnCent \div CentDen), 10000)
      a2 == Quot(a * Quot(a, 64), Mega \div 64)
      a3 == Quot(a2 * a, Mega)
  IN  Mega + a + Quot(a2, 2) + Quot(a3, 6)

\* base_freq * detune_ratio
ScaleFreq(base_freq, detune_ratio) ==
  LET d == detune_ratio - Mega
  IN  base_freq + Quot(base_freq * Quot(d, Full) + Quot(base_freq * (d % Full), Full), Full)

\* unison.rs 48: (settings.detune * 2.0) / (voice_count - 1.0)
DetuneStep(settings) == (settings.detune * 2 * CentDen) \div (settings.voices - 1)

\* faulty variant of DetuneAmount: the voices start at the base frequency
DetuneAmountOneSided(settings, i) == DetuneStep(settings) * i

\* unison.rs 49: -settings.detune + detune_step * i
DetuneAmount(settings, i) == -settings.detune * CentDen + DetuneStep(settings) * i

\* unison.rs 52-58: the sample of voice i
VoiceSample(base_freq, settings, t, sample_rate, osc, i) ==
  GenerateWaveform(settings.waveform,
                   ScaleFreq(base_freq, DetuneRatio(DetuneAmount(settings, i))),
                   t, sample_rate, osc)

\* unison.rs 46-62: the sum over the voices from i on
RECURSIVE VoiceSum(_, _, _, _, _, _)
VoiceSum(base_freq, settings, t, sample_rate, osc, i) ==
  IF i >= settings.voices
    THEN 0
    ELSE VoiceSample(base_freq, settings, t, sample_rate, osc, i)
           + VoiceSum(base_freq, settings, t, sample_rate, osc, i + 1)

\* faulty variant of GenerateUnison: a single voice is detuned like the lowest of many
GenerateUnisonDetuned(base_freq, settings, t, sample_rate, osc) ==
  IF settings.voices = 0 \/ settings.voices > 8
    THEN 0
    ELSE IF settings.voices = 1
      THEN GenerateWaveform(settings.waveform,
                            ScaleFreq(base_freq, DetuneRatio(-settings.detune * CentDen)),
                            t, sample_rate, osc)
      ELSE Quot(VoiceSum(base_freq, settings, t, sample_rate, osc, 0), settings.voices)

\* the mean of the voices: each value over voice_count, summed (the model divides
\* the sum once)
GenerateUnison(base_freq, settings, t, sample_rate, osc) ==
  IF settings.voices = 0 \/ settings.voices > 8
    THEN 0
    ELSE IF settings.voices = 1
      THEN GenerateWaveform(settings.waveform, base_freq, t, sample_rate, osc)
      ELSE Quot(VoiceSum(base_freq, settings, t, sample_rate, osc, 0), settings.voices)

----------------------------------------------------------------------------
(* the sound generator called with arguments of every kind *)

\* the sample rate of the output device
SampleRate == 48000

\* the last sample time (in samples) of the calls
MaxTime == 4

\* 20 Hz, 440 Hz, 12 kHz and 20 kHz
Frequencies == {20 * Full, 440 * Full, 12000 * Full, 20000 * Full}

\* oversample ratio 1..16, filter alpha 0..1, smoothing strength 0..0.5
OscillatorSettings ==
  [oversample_ratio : {1, 2, 16}, filter_alpha : {0, 2, 4}, smoothing_strength : {0, 1, 2}]

\* voices is a u8 and detune an f32: values in and out of 1..8 and 0..100
AnyUnisonSettings ==
  [voices : {0, 1, 2, 4, 8, 9}, detune : {-50, 0, 20, 100, 200}, waveform : Waveforms]

\* a call of generate_waveform, before it runs
WaveformCalls ==
  { [fn |-> "generate_waveform", done |-> FALSE, frequency |-> frequency, t |-> t,
     osc |-> settings, unison |-> [UnisonDefault EXCEPT !.waveform = waveform],
     out |-> 0] :
      waveform \in Waveforms, frequency \in Frequencies, t \in 0..MaxTime,
      settings \in OscillatorSettings }

\* a call of generate_unison, before it runs: 220 or 440 Hz, sample times a few
\* cycles apart, the filter passing its input or doubling it
UnisonCalls ==
  { [fn |-> "generate_unison", done |-> FALSE, frequency |-> base_freq, t |-> t,
     osc |-> osc, unison |-> settings, out |-> 0] :
      base_freq \in {220 * Full, 440 * Full},
      settings \in AnyUnisonSettings,
      t \in { 20 * n : n \in 0..MaxTime },
      osc \in { [oversample_ratio |-> 1, filter_alpha |-> 2, smoothing_strength |-> 0],
                [oversample_ratio |-> 2, filter_alpha |-> 4, smoothing_strength |-> 2] } }

InitSound ==
  /\ snd \in WaveformCalls \cup UnisonCalls
  /\ env = NotBuilt
  /\ lastOp = NoOp
  /\ hist = NoHist
  /\ pre = NotBuilt
  /\ mid = NoMid
  /\ mgr = NotBuilt
  /\ rt = NotBuilt

GenerateWaveformOp ==
  /\ snd.fn = "generate_waveform"
  /\ ~snd.done
  /\ snd' = [snd EXCEPT
               !.done = TRUE,
               !.out = GenerateWaveform(snd.unison.waveform, snd.frequency, snd.t,
                                        SampleRate, snd.osc)]
  /\ UNCHANGED <<env, lastOp, pre, mid, hist, mgr, rt>>

GenerateUnisonOp ==
  /\ snd.fn = "generate_unison"
  /\ ~snd.done
  /\ snd' = [snd EXCEPT
               !.done = TRUE,
               !.out = GenerateUnison(snd.frequency, snd.unison, snd.t, SampleRate,
                                      snd.osc)]
  /\ UNCHANGED <<env, lastOp, pre, mid, hist, mgr, rt>>

NextSound == GenerateWaveformOp \/ GenerateUnisonOp

SpecSound == InitSound /\ [][NextSound]_vars

----------------------------------------------------------------------------
(* the four threads together, as app.rs starts them: the stream is opened     *)
(* with initial_freq 0.0.  What no lock operation depends on keeps one value: *)
(* the host's frames are zeros, the widgets leave the unison settings and the *)
(* envelope parameters as they are, the frequency slider is not moved and the *)
(* keyboard plays A4.                                                         *)

InitThreadsOfApp ==
  /\ InitThreads
  /\ rt.initial_freq = 0

Untouched ==
  /\ rt'.unison = UnisonDefault
  /\ env'.params = DefaultParams
  /\ \A i \in 1..BufLen : rt'.data[i].gain = 0
  /\ rt'.gui_freq \in {0, NoteFreq(A4Note)}
  /\ rt'.note \in {0, A4Note}

NextThreads ==
  /\ AudioCallback \/ GuiFrame \/ MidiReceiveSome \/ MidiHandle \/ Watchdog \/ Tick
  /\ Untouched

SpecThreads == InitThreadsOfApp /\ [][NextThreads]_vars

----------------------------------------------------------------------------
(* Claims *)

Cleared(e) ==
  /\ e.state = "Idle"
  /\ e.value = 0
  /\ e.note_id = 0
  /\ ~e.is_triggered
  /\ ~e.is_processing
  /\ ~e.is_released

\* C1: start(note_id) while the envelope is processing that same note_id changes
\* nothing: every field of the envelope is the same after the call as before it.
C1_StartSameNoteIsNoOp ==
  [][(lastOp'.op = "start" /\ env.is_processing /\ env.note_id = lastOp'.note)
       => env' = env]_vars

\* a start() of the note that is being released has been ignored
C1_Witness ==
  /\ lastOp.op = "start"
  /\ pre.is_processing
  /\ pre.note_id = lastOp.note
  /\ pre.state = "Release"
  /\ env.state = "Release"
  /\ env.value > 0

\* C2 as stated: start(note_id) on an envelope that is Idle or in Release leaves it
\* in Attack with phase time 0, for every note_id.
C2_StartFromIdleOrRelease ==
  (lastOp.op = "start" /\ pre.state \in {"Idle", "Release"})
    => (env.state = "Attack" /\ env.phase_time = 0)

\* C2 amended: start(note_id) on an envelope that is Idle, or in Release with a
\* note_id other than the one being released, leaves it in Attack with phase time 0
\* for that note; a start() with the note_id being released leaves it in Release.
C2_StartFromIdleOrOtherRelease ==
  /\ (lastOp.op = "start"
        /\ (pre.state = "Idle" \/ (pre.state = "Release" /\ pre.note_id # lastOp.note)))
       => (env.state = "Attack" /\ env.phase_time = 0 /\ env.note_id = lastOp.note)
  /\ (lastOp.op = "start" /\ pre.state = "Release" /\ pre.note_id = lastOp.note)
       => env.state = "Release"

\* a start() of another note during a release that had begun to fall
C2_Witness ==
  /\ lastOp.op = "start"
  /\ pre.state = "Release"
  /\ pre.note_id # lastOp.note
  /\ pre.value > 0
  /\ pre.value < pre.release_start_value
  /\ env.state = "Attack"

\* C3: start() with another note_id while a note sounds (Attack, Decay, Sustain) first
\* ends the old note: before the new Attack begins the envelope is released and its
\* release-start value is the value it had at the call; then the Attack of the new
\* note begins.
C3_RetriggerReleasesFirst ==
  (lastOp.op = "start" /\ pre.state \in Sounding /\ pre.note_id # lastOp.note)
    => /\ mid.state = "Release"
       /\ mid.is_released
       /\ mid.release_start_value = pre.value
       /\ env.state = "Attack"
       /\ env.note_id = lastOp.note

\* a retrigger of a note sounding at a level above 0
C3_Witness ==
  /\ lastOp.op = "start"
  /\ pre.state = "Decay"
  /\ pre.note_id # lastOp.note
  /\ pre.value > 0
  /\ mid.release_start_value = pre.value
  /\ env.state = "Attack"

\* the Attack curve's level at phase p, with the level 1 it ends at
AttackLevel(p, d) == IF p >= d THEN One ELSE AttackCurve(p, d)

\* the largest change of the Attack curve of d ticks over one step of dt ticks
MaxAttackStep(dt, d) ==
  LET steps == { AttackLevel(p + dt, d) - AttackLevel(p, d) : p \in 0..d }
  IN  CHOOSE m \in steps : \A x \in steps : x <= m

\* C4: after a start() of another note on a sounding envelope, no update() of the
\* new Attack changes the value by more than the largest change of the Attack curve
\* over one step: the value does not drop from the old note's level straight to the
\* start of the Attack curve.
C4_NoJumpAfterRetrigger ==
  (lastOp.op = "update" /\ hist.retrig /\ pre.state = "Attack" /\ env.state = "Attack")
    => Abs(env.value - pre.value) <= MaxAttackStep(lastOp.dt, env.params.attack)

\* C5: a note started on an idle envelope and held (update() calls of one step dt,
\* nothing else) is in Sustain at the sustain level once the summed dt reaches
\* attack + decay + dt, already at attack + decay when dt divides both durations,
\* and stays so at every later update.
C5_HeldReachesSustain ==
  LET a  == env.params.attack
      d  == env.params.decay
      dt == hist.heldDt
  IN  (hist.held /\ dt > 0
         /\ (\/ hist.elapsed >= a + d + dt
             \/ (hist.elapsed >= a + d /\ a % dt = 0 /\ d % dt = 0)))
        => (env.state = "Sustain" /\ env.value = env.params.sustain)

\* a held note that overshot both stages and has been updated again in Sustain
C5_Witness ==
  /\ hist.held
  /\ hist.heldDt = 3
  /\ env.params.attack = 4
  /\ env.params.decay = 4
  /\ hist.elapsed > 12
  /\ lastOp.op = "update"
  /\ pre.state = "Sustain"
  /\ env.state = "Sustain"
  /\ env.value = env.params.sustain
  /\ env.value > 0

\* C6: after end() on a sounding envelope, once the steps of the update() calls sum
\* to the release duration the envelope is Idle with value 0, note_id 0 and the
\* triggered, processing and released flags false.
C6_ReleaseEndsIdle ==
  (hist.ended /\ hist.sinceEnd >= env.params.release) => Cleared(env)

\* the update() that completes a release of 4 ticks exactly, from a level above 0
C6_Witness ==
  /\ hist.ended
  /\ env.params.release = 4
  /\ hist.sinceEnd = 4
  /\ lastOp.op = "update"
  /\ pre.state = "Release"
  /\ pre.value > 0
  /\ Cleared(env)

C8_EndReleasesOrNothing ==
  [][lastOp'.op = "end"
       => IF env.state \in Sounding
            THEN /\ env'.state = "Release"
                 /\ env'.release_start_value = env.value
                 /\ env'.value = env.value
            ELSE env' = env]_vars

\* end() of a note in Decay at a level above 0
C8_Witness ==
  /\ lastOp.op = "end"
  /\ pre.state = "Decay"
  /\ pre.value > 0
  /\ env.state = "Release"
  /\ env.release_start_value = pre.value

\* C9: update() on an envelope that is not triggered or not processing sets the
\* value to 0, clears the released, sustaining and processing flags, and changes
\* neither the phase times nor the state.
C9_UpdateInactiveIsSilent ==
  [][(lastOp'.op = "update" /\ (~env.is_triggered \/ ~env.is_processing))
       => /\ env'.value = 0
          /\ ~env'.is_released
          /\ ~env'.is_sustaining
          /\ ~env'.is_processing
          /\ env'.phase_time = env.phase_time
          /\ env'.release_phase_time = env.release_phase_time
          /\ env'.state = env.state]_vars

\* update() of an envelope whose note has been released down to Idle
C9_Witness ==
  /\ lastOp.op = "update"
  /\ ~pre.is_triggered
  /\ pre.state = "Idle"
  /\ hist.ended
  /\ env.value = 0
  /\ env.state = "Idle"

C11_ManagerReleaseEndsIdle ==
  (hist.ended /\ hist.sinceEnd >= hist.relUsed)
    => \A i \in DOMAIN mgr.envelopes :
         mgr.envelopes[i].state = "Idle" /\ mgr.envelopes[i].value = 0

\* C12: when the audio callback's try_lock() of the shared frequency fails, it plays
\* the buffer at the frequency of the buffer before, and the remembered last valid
\* frequency stays as it was
C12_ContendedFreqFallsBack ==
  [][(rt.a_tried.current_freq = "held" /\ rt.a_ran)
       => /\ rt.pc["audio"] = "save_freq" => rt'.last_freq = rt.last_freq
          /\ (rt.pc["audio"] = "clone_unison" /\ rt'.pc["audio"] = "lock_envelope")
               => rt'.a_used = rt.a_used]_vars

\* C13: a callback that finds the unison settings locked leaves a buffer of zeros
C13_ContendedUnisonIsSilent ==
  (rt.pc["audio"] = "idle" /\ rt.a_tried.unison = "held")
    => \A i \in 1..BufLen : rt.data[i].gain = 0

\* C14: the audio callback never waits in lock() for the shared frequency, the
\* unison settings or the envelope while the GUI, the MIDI callback or the watchdog
\* holds it
C14_AudioNeverWaits ==
  \A by \in {"gui", "midi", "watchdog"} :
    ~(BlockedBy("audio", by) /\ WaitsFor("audio") \in {"current_freq", "unison", "envelope"})

\* C15: the GUI never waits in lock() for a mutex the audio callback holds
C15_GuiNeverWaitsForAudio == ~BlockedBy("gui", "audio")

\* C16: set_params() changes neither the state nor the current value of the
\* envelope, whatever its state (Sustain included)
C16_SetParamsKeepsProgression ==
  [][lastOp'.op = "set_params" => (env'.state = env.state /\ env'.value = env.value)]_vars

\* C17: when the MIDI callback has handled a note on with velocity > 0 the envelope
\* is in Attack, and when it has handled a note off (or a note on with velocity 0)
\* the envelope is in Release
C17_MidiTriggersEnvelope ==
  [][(rt.pc["midi"] # "idle" /\ rt'.pc["midi"] = "idle")
       => /\ rt'.handled = "note_on" => env'.state = "Attack"
          /\ (rt'.handled \in {"note_on_zero", "note_off"} /\ env.state \in Sounding)
               => env'.state = "Release"]_vars

\* what the MIDI callback shares with the other threads
MidiShared(r) == <<r.current_freq, r.last_note_off>>

\* C18: a note on with velocity 0 leaves the shared frequency and the armed
\* last-note-off time exactly as a note off handled in the same state would
C18_NoteOnZeroIsNoteOff ==
  [][(rt.pc["midi"] = "set_off_zero" /\ rt'.pc["midi"] = "idle")
       => MidiShared(rt') = MidiShared(NoteOffWrite(rt))]_vars

C18_Witness ==
  /\ rt.pc["midi"] = "idle"
  /\ rt.handled = "note_on_zero"
  /\ rt.last_note_off = 0
  /\ rt.current_freq = NoteFreq(81)

ValidParams(params) ==
  /\ params.attack > 0
  /\ params.decay > 0
  /\ params.release > 0
  /\ params.sustain >= 0 /\ params.sustain <= One

\* C20: whatever the setters are called with, the stored unison settings and
\* envelope parameters are in their domains
C20_SettingsInDomain ==
  /\ rt.unison.voices >= 1 /\ rt.unison.voices <= 8
  /\ rt.unison.detune >= 0 /\ rt.unison.detune <= 100
  /\ ValidParams(env.params)
  /\ ValidParams(mgr.params)
  /\ \A i \in DOMAIN mgr.envelopes : ValidParams(mgr.envelopes[i].params)

\* C21: update() divides only by a stage duration above zero, and a stage whose
\* duration is zero or less is left for the next state by the first update() in it
C21_DivisorsArePositive ==
  /\ [](\A delta_time \in AnyDeltaTimes :
          \A d \in UpdateDivisors(env, delta_time) : d > 0)
  /\ [][(lastOp'.op = "update" /\ env.is_triggered /\ env.is_processing) =>
          /\ (env.state = "Attack" /\ env.params.attack <= 0) => env'.state = "Decay"
          /\ (env.state = "Decay" /\ env.params.decay <= 0) => env'.state = "Sustain"
          /\ (env.state = "Release" /\ env.params.release <= 0) => env'.state = "Idle"]_vars

C21_Witness ==
  /\ lastOp.op = "update"
  /\ lastOp.dt = 0
  /\ pre.state = "Release"
  /\ pre.is_processing
  /\ env.params.release <= 0
  /\ env.params.attack <= 0
  /\ env.state = "Idle"

\* the sample of the oscillator at the base frequency of the call
SingleVoice ==
  GenerateWaveform(snd.unison.waveform, snd.frequency, snd.t, SampleRate, snd.osc)

\* C22: generate_unison with a voice count of 0 or above 8, or a detune outside
\* 0..100 cents, returns the sample of the single oscillator at the base frequency
C22_MalformedFallsBack ==
  (/\ snd.fn = "generate_unison"
   /\ snd.done
   /\ \/ snd.unison.voices = 0
      \/ snd.unison.voices > 8
      \/ snd.unison.detune < 0
      \/ snd.unison.detune > 100)
    => snd.out = SingleVoice

\* generate_unison has mixed more than one voice, with settings in their domain
Mixed ==
  /\ snd.fn = "generate_unison"
  /\ snd.done
  /\ snd.unison.voices > 1
  /\ snd.unison.voices <= 8
  /\ snd.unison.detune >= 0
  /\ snd.unison.detune <= 100

\* the detune amounts of a mixing call are evenly spaced and mirror each other about 0
EvenAndSymmetric ==
  LET V == snd.unison.voices IN
  /\ \A i \in 0..(V - 2) :
       DetuneAmount(snd.unison, i + 1) - DetuneAmount(snd.unison, i)
         = DetuneAmount(snd.unison, 1) - DetuneAmount(snd.unison, 0)
  /\ \A i \in 0..(V - 1) :
       DetuneAmount(snd.unison, i) = -DetuneAmount(snd.unison, V - 1 - i)

\* the distance in cents from the lowest voice to the highest
Spread ==
  DetuneAmount(snd.unison, snd.unison.voices - 1) - DetuneAmount(snd.unison, 0)

\* C23 as stated: for V > 1 voices the detune amounts are evenly spaced, symmetric
\* about 0, and the highest lies D cents above the lowest
C23_SpreadIsDetune ==
  Mixed => (EvenAndSymmetric /\ Spread = snd.unison.detune * CentDen)

\* C23 amended: the same, with the highest voice 2 D cents above the lowest (the
\* voices run from -D to +D)
C23_SpreadIsTwiceDetune ==
  Mixed => /\ EvenAndSymmetric
           /\ Spread = 2 * snd.unison.detune * CentDen
           /\ DetuneAmount(snd.unison, 0) = -snd.unison.detune * CentDen

C23_Witness ==
  /\ Mixed
  /\ snd.unison.voices = 4
  /\ snd.unison.detune = 20
  /\ snd.frequency = 220 * Full
  /\ Spread = 40 * CentDen
  /\ snd.out # SingleVoice

\* C24: generate_unison with one voice returns the oscillator's sample for the
\* waveform at the base frequency and the same t, whatever the detune
C24_OneVoiceIsOscillator ==
  (snd.fn = "generate_unison" /\ snd.done /\ snd.unison.voices = 1)
    => snd.out = SingleVoice

C24_Witness ==
  /\ snd.fn = "generate_unison"
  /\ snd.done
  /\ snd.unison.voices = 1
  /\ snd.unison.detune = 100
  /\ snd.unison.waveform = "Sine"
  /\ snd.out = SingleVoice
  /\ snd.out > 0
  /\ snd.out # GenerateUnison(snd.frequency, [snd.unison EXCEPT !.voices = 2], snd.t,
                              SampleRate, snd.osc)

\* a call of generate_waveform whose result is its raw sample: one oversampling
\* step, filter_alpha 0.5 (the filter passes its input), no smoothing
RawCall ==
  /\ snd.fn = "generate_waveform"
  /\ snd.done
  /\ snd.osc = [oversample_ratio |-> 1, filter_alpha |-> 2, smoothing_strength |-> 0]

\* the phase of such a call
RawPhase == PhaseAt(snd.frequency, snd.t, 0, SampleRate, snd.osc)

\* C25: the raw sample of the Square waveform has amplitude 0.8, and the sign
\* opposite to that of the sample half a cycle away: one sign on [0, 0.5), the
\* other on [0.5, 1)
C25_SquareAlternates ==
  (RawCall /\ snd.unison.waveform = "Square")
    => /\ Abs(snd.out) = Amplitude
       /\ Signum(snd.out)
            # Signum(RawSample("Square", (RawPhase + Full \div 2) % Full))

\* C26: generate_waveform returns a value in [-1, 1], for every waveform, frequency,
\* sample time and quality settings in their domains
C26_SampleInRange ==
  (snd.fn = "generate_waveform" /\ snd.done)
    => (snd.out >= -Full /\ snd.out <= Full)

\* the filter has doubled a full-scale sine sample and the result is 1.0
C26_Witness ==
  /\ snd.fn = "generate_waveform"
  /\ snd.done
  /\ snd.osc.oversample_ratio = 1
  /\ ApplyLowpassFilter(
       RawSample(snd.unison.waveform,
                 PhaseAt(snd.frequency, snd.t, 0, SampleRate, snd.osc)),
       0, snd.osc.filter_alpha) > Full
  /\ snd.out = Full

\* C27: a callback that reads a shared frequency of 0 or less plays the buffer at
\* the last frequency above 0 that the callback has read, and the held frequency
\* changes only to a frequency above 0 that the callback has read
C27_HeldFrequencyIsLastObserved ==
  /\ [](( /\ rt.pc["audio"] \in {"lock_envelope", "update_envelope"}
          /\ rt.a_tried.current_freq = "ok"
          /\ rt.a_freq <= 0
          /\ rt.observed > 0 )
        => rt.a_used = rt.observed)
  /\ [][rt'.last_freq # rt.last_freq
          => (rt'.last_freq > 0 /\ rt'.last_freq = rt'.observed)]_vars

\* C28: every invocation of the audio callback advances the envelope once, by one
\* buffer, and writes frame i with the gain start + (end - start) * i / length
\* between the envelope values before and after the advance, or as 0 when that
\* gain is 0 or less
C28_OneAdvancePerBuffer ==
  [][(rt.pc["audio"] # "idle" /\ rt'.pc["audio"] = "idle")
       => /\ rt'.a_updates = 1
          /\ env' = Update(env, BufferDt)
          /\ \A i \in 1..BufLen :
               LET gain == env.value + ((env'.value - env.value) * (i - 1)) \div BufLen
               IN  /\ rt'.data[i].kind = "written"
                   /\ rt'.data[i].gain = IF gain > 0 THEN gain ELSE 0]_vars

\* C29: while a note is held (its note on handled, no note off for it arrived) the
\* watchdog does not set the shared frequency to 0
C29_WatchdogSparesHeldNote ==
  [][(rt.pc["watchdog"] = "zero" /\ rt'.pc["watchdog"] = "idle" /\ rt.current_freq # 0)
       => rt.held = {}]_vars

\* C30: no set of threads waits in a cycle: in every non-empty set of threads some
\* thread does not wait in lock() for a mutex held by a thread of the set
C30_NoWaitCycle ==
  \A S \in (SUBSET Threads) \ {{}} :
    \E t \in S : \A by \in S : ~BlockedBy(t, by)

\* a chain of waiting threads that does not close: the MIDI callback waits for the
\* watchdog, which waits for the GUI
C30_Witness ==
  /\ BlockedBy("midi", "watchdog")
  /\ BlockedBy("watchdog", "gui")
  /\ WaitsFor("gui") = "none"

\* C31: a frame of the GUI in which the user does not move the frequency slider
\* (self.freq is still what the frame copied from midi_freq) leaves the shared
\* current frequency as it was, so the frequency of a note on stays until the next
\* MIDI event or the watchdog
C31_GuiFrameKeepsFrequency ==
  [][(GuiWriteFreq /\ rt.gui_freq = rt.midi_freq)
       => rt'.current_freq = rt.current_freq]_vars

\* C32: in every reachable state of an Envelope, is_triggered, is_processing and
\* is_active are true exactly when the state is not Idle, is_released exactly when
\* it is Release, is_sustaining exactly when it is Sustain, and an Idle envelope
\* has note_id 0 and value 0
C32_FlagsAgreeWithState ==
  /\ env.is_triggered = (env.state # "Idle")
  /\ env.is_processing = (env.state # "Idle")
  /\ env.is_active = (env.state # "Idle")
  /\ env.is_released = (env.state = "Release")
  /\ env.is_sustaining = (env.state = "Sustain")
  /\ env.state = "Idle" => (env.note_id = 0 /\ env.value = 0)

\* a note above 0 was ended while it sounded and its release has run out: the
\* update() that returns the envelope to Idle from a level above 0
C32_Witness ==
  /\ lastOp.op = "update"
  /\ pre.state = "Release"
  /\ pre.note_id > 0
  /\ pre.value > 0
  /\ hist.ended
  /\ env.state = "Idle"

\* C33: in every reachable state of an EnvelopeManager its is_processing is true
\* exactly when some envelope it owns is processing, and every start_all(note_id)
\* it accepts leaves each of its envelopes in Attack for note_id
C33_ManagerFlagsAgree ==
  /\ [](mgr.is_processing = (\E i \in DOMAIN mgr.envelopes : mgr.envelopes[i].is_processing))
  /\ [][(lastOp'.op = "start_all" /\ mgr' # mgr)
          => \A i \in DOMAIN mgr'.envelopes :
               /\ mgr'.envelopes[i].state = "Attack"
               /\ mgr'.envelopes[i].note_id = lastOp'.note]_vars

====
